---- MODULE Spec2Model ----
(***************************************************************************)
(* Split Bill App (src/src/App.jsx).                                       *)
(*                                                                         *)
(* The App component keeps the ledger `people` and the index `openPerson`  *)
(* of the participant whose profile dialog is open.  Every event handler   *)
(* replaces the state, React renders App again, and the render calls       *)
(* calculateDebts() (line 114).  JavaScript is single threaded, so a       *)
(* handler never runs while calculateDebts is running: the handlers are    *)
(* enabled only at pc = "idle".                                            *)
(*                                                                         *)
(* Amounts are exact integers (cents); the validator's tolerance 0.01 is   *)
(* one cent.  Names are strings that are not array indices, so that        *)
(* Object.entries lists the keys of debtMap in insertion order.            *)
(***************************************************************************)
EXTENDS Integers, Sequences, FiniteSets, TLC

VARIABLES people, openPerson, pc, totalSpent, totalPaid, debtMap,
          creditors, debtors, debts, i, j, result

vars == <<people, openPerson, pc, totalSpent, totalPaid, debtMap,
          creditors, debtors, debts, i, j, result>>

locals == <<totalSpent, totalPaid, debtMap, creditors, debtors, debts, i, j, result>>

---------------------------------------------------------------------------
(* Bounds of the model *)

MaxPeople == 3

MaxItems == 1

MaxPayments == 1

MaxAmount == 3

(* Names typed into the "Enter name" form; nothing keeps them distinct. *)
Names == {"a", "b", "c"}

(* Amounts typed into the "Payment amount" form, parsed by parseFloat: any
   sign is accepted. *)
PaymentValues == ((0 - MaxAmount)..MaxAmount) \ {0}

(* The only caller of onAddItem passes the string '0' as the value. *)
ItemValues == {0}

(* 0.01 currency units, in cents *)
Tolerance == 1

NULL == 0

---------------------------------------------------------------------------
(* Helpers for the JavaScript built-ins *)

Abs(x) == IF x < 0 THEN 0 - x ELSE x

Min(x, y) == IF x < y THEN x ELSE y

(* Array.prototype.splice(index, 1), index counted from 0 *)
Splice(s, index) ==
    [k \in 1..(Len(s) - 1) |-> IF k <= index THEN s[k] ELSE s[k + 1]]

(* person.payments.reduce((acc, pay) => acc + pay, 0) *)
RECURSIVE SumPayments(_)
SumPayments(s) ==
    IF s = <<>> THEN 0 ELSE Head(s) + SumPayments(Tail(s))

(* person.items.reduce((acc, item) => acc + item.value, 0) *)
RECURSIVE SumItems(_)
SumItems(s) ==
    IF s = <<>> THEN 0 ELSE Head(s).value + SumItems(Tail(s))

(* debtMap[name] = amount on an object whose own keys are listed in
   insertion order: an existing key keeps its place and takes the new value *)
RECURSIVE ObjectSet(_, _, _)
ObjectSet(m, name, amount) ==
    IF m = <<>> THEN << [name |-> name, amount |-> amount] >>
    ELSE IF Head(m).name = name
         THEN << [name |-> name, amount |-> amount] >> \o Tail(m)
         ELSE << Head(m) >> \o ObjectSet(Tail(m), name, amount)

(* insertion of r into a list sorted by descending amount, after the
   records of equal amount (Array.prototype.sort is stable) *)
RECURSIVE InsertDesc(_, _)
InsertDesc(s, r) ==
    IF s = <<>> THEN << r >>
    ELSE IF Head(s).amount >= r.amount
         THEN << Head(s) >> \o InsertDesc(Tail(s), r)
         ELSE << r >> \o s

(* list.sort((a, b) => b.amount - a.amount) *)
RECURSIVE SortDescFrom(_, _)
SortDescFrom(sorted, rest) ==
    IF rest = <<>> THEN sorted
    ELSE SortDescFrom(InsertDesc(sorted, Head(rest)), Tail(rest))

SortDesc(s) == SortDescFrom(<<>>, s)

---------------------------------------------------------------------------
(* calculateDebts, lines 45-80 *)

NoResult == [pending |-> TRUE]

(* a fresh activation of calculateDebts: line 46, 47 and the declarations
   of lines 59, 68, 69 *)
Invoke ==
    /\ pc' = "aggregate"
    /\ totalSpent' = 0
    /\ totalPaid' = 0
    /\ debtMap' = <<>>
    /\ creditors' = <<>>
    /\ debtors' = <<>>
    /\ debts' = <<>>
    /\ i' = 0
    /\ j' = 0
    /\ result' = NoResult

(* the body of people.forEach, lines 49-55, folded over the ledger *)
RECURSIVE ForEachPerson(_, _)
ForEachPerson(acc, ps) ==
    IF ps = <<>> THEN acc
    ELSE LET person == Head(ps)
             spent == SumItems(person.items)
             paid == SumPayments(person.payments)
         IN ForEachPerson(
                [debtMap |-> ObjectSet(acc.debtMap, person.name, paid - spent),
                 totalSpent |-> acc.totalSpent + spent,
                 totalPaid |-> acc.totalPaid + paid],
                Tail(ps))

Aggregate ==
    /\ pc = "aggregate"
    /\ LET r == ForEachPerson(
                    [debtMap |-> debtMap, totalSpent |-> totalSpent,
                     totalPaid |-> totalPaid], people)
       IN /\ debtMap' = r.debtMap
          /\ totalSpent' = r.totalSpent
          /\ totalPaid' = r.totalPaid
    /\ pc' = "validate"
    /\ UNCHANGED <<people, openPerson, creditors, debtors, debts, i, j, result>>

(* line 57 with >= in place of > *)
TotalsMismatchGe(spent, paid) == Abs(spent - paid) >= Tolerance

(* line 57 *)
TotalsMismatch(spent, paid) == Abs(spent - paid) > Tolerance

ValidateError ==
    /\ pc = "validate"
    /\ TotalsMismatch(totalSpent, totalPaid)
    /\ result' = [error |-> "Totals do not match"]
    /\ pc' = "idle"
    /\ UNCHANGED <<people, openPerson, totalSpent, totalPaid, debtMap,
                   creditors, debtors, debts, i, j>>

ValidateOk ==
    /\ pc = "validate"
    /\ ~TotalsMismatch(totalSpent, totalPaid)
    /\ pc' = "partition"
    /\ UNCHANGED <<people, openPerson, locals>>

(* line 61 with >= in place of >: settled participants become creditors *)
RECURSIVE CreditorsOfNonNegative(_)
CreditorsOfNonNegative(entries) ==
    IF entries = <<>> THEN <<>>
    ELSE IF Head(entries).amount >= 0
         THEN << Head(entries) >> \o CreditorsOfNonNegative(Tail(entries))
         ELSE CreditorsOfNonNegative(Tail(entries))

(* lines 60-63 over Object.entries(debtMap) *)
RECURSIVE CreditorsOf(_)
CreditorsOf(entries) ==
    IF entries = <<>> THEN <<>>
    ELSE IF Head(entries).amount > 0
         THEN << Head(entries) >> \o CreditorsOf(Tail(entries))
         ELSE CreditorsOf(Tail(entries))

RECURSIVE DebtorsOf(_)
DebtorsOf(entries) ==
    IF entries = <<>> THEN <<>>
    ELSE IF ~(Head(entries).amount > 0) /\ Head(entries).amount < 0
         THEN << [name |-> Head(entries).name,
                  amount |-> Abs(Head(entries).amount)] >>
              \o DebtorsOf(Tail(entries))
         ELSE DebtorsOf(Tail(entries))

(* lines 59-69 without the two sorts of lines 65, 66 *)
PartitionUnsorted ==
    /\ pc = "partition"
    /\ creditors' = CreditorsOf(debtMap)
    /\ debtors' = DebtorsOf(debtMap)
    /\ debts' = <<>>
    /\ i' = 0
    /\ j' = 0
    /\ pc' = "match"
    /\ UNCHANGED <<people, openPerson, totalSpent, totalPaid, debtMap, result>>

(* lines 59-69 *)
Partition ==
    /\ pc = "partition"
    /\ creditors' = SortDesc(CreditorsOf(debtMap))
    /\ debtors' = SortDesc(DebtorsOf(debtMap))
    /\ debts' = <<>>
    /\ i' = 0
    /\ j' = 0
    /\ pc' = "match"
    /\ UNCHANGED <<people, openPerson, totalSpent, totalPaid, debtMap, result>>

(* line 70 *)
LoopCondition == i < Len(creditors) /\ j < Len(debtors)

(* the iteration with Math.max in place of Math.min *)
MatchStepMax ==
    /\ pc = "match"
    /\ LoopCondition
    /\ LET debt == IF creditors[i + 1].amount > debtors[j + 1].amount
                   THEN creditors[i + 1].amount ELSE debtors[j + 1].amount
           c == creditors[i + 1].amount - debt
           d == debtors[j + 1].amount - debt
       IN /\ debts' = Append(debts, [from |-> debtors[j + 1].name,
                                     to |-> creditors[i + 1].name,
                                     amount |-> debt])
          /\ creditors' = [creditors EXCEPT ![i + 1].amount = c]
          /\ debtors' = [debtors EXCEPT ![j + 1].amount = d]
          /\ i' = IF c = 0 THEN i + 1 ELSE i
          /\ j' = IF d = 0 THEN j + 1 ELSE j
    /\ pc' = "match"
    /\ UNCHANGED <<people, openPerson, totalSpent, totalPaid, debtMap, result>>

(* the iteration with `else if` on line 76: j stays when i advances *)
MatchStepElseIf ==
    /\ pc = "match"
    /\ LoopCondition
    /\ LET debt == Min(creditors[i + 1].amount, debtors[j + 1].amount)
           c == creditors[i + 1].amount - debt
           d == debtors[j + 1].amount - debt
       IN /\ debts' = Append(debts, [from |-> debtors[j + 1].name,
                                     to |-> creditors[i + 1].name,
                                     amount |-> debt])
          /\ creditors' = [creditors EXCEPT ![i + 1].amount = c]
          /\ debtors' = [debtors EXCEPT ![j + 1].amount = d]
          /\ i' = IF c = 0 THEN i + 1 ELSE i
          /\ j' = IF c # 0 /\ d = 0 THEN j + 1 ELSE j
    /\ pc' = "match"
    /\ UNCHANGED <<people, openPerson, totalSpent, totalPaid, debtMap, result>>

(* the iteration settling one cent per transfer instead of the minimum *)
MatchStepUnit ==
    /\ pc = "match"
    /\ LoopCondition
    /\ LET debt == 1
           c == creditors[i + 1].amount - debt
           d == debtors[j + 1].amount - debt
       IN /\ debts' = Append(debts, [from |-> debtors[j + 1].name,
                                     to |-> creditors[i + 1].name,
                                     amount |-> debt])
          /\ creditors' = [creditors EXCEPT ![i + 1].amount = c]
          /\ debtors' = [debtors EXCEPT ![j + 1].amount = d]
          /\ i' = IF c = 0 THEN i + 1 ELSE i
          /\ j' = IF d = 0 THEN j + 1 ELSE j
    /\ pc' = "match"
    /\ UNCHANGED <<people, openPerson, totalSpent, totalPaid, debtMap, result>>

(* the iteration with the tests of lines 75, 76 made before the
   subtractions of lines 73, 74 *)
MatchStepStaleTest ==
    /\ pc = "match"
    /\ LoopCondition
    /\ LET debt == Min(creditors[i + 1].amount, debtors[j + 1].amount)
           c == creditors[i + 1].amount - debt
           d == debtors[j + 1].amount - debt
       IN /\ debts' = Append(debts, [from |-> debtors[j + 1].name,
                                     to |-> creditors[i + 1].name,
                                     amount |-> debt])
          /\ creditors' = [creditors EXCEPT ![i + 1].amount = c]
          /\ debtors' = [debtors EXCEPT ![j + 1].amount = d]
          /\ i' = IF creditors[i + 1].amount = 0 THEN i + 1 ELSE i
          /\ j' = IF debtors[j + 1].amount = 0 THEN j + 1 ELSE j
    /\ pc' = "match"
    /\ UNCHANGED <<people, openPerson, totalSpent, totalPaid, debtMap, result>>

(* the iteration with the debtor records being the person objects: the
   subtraction of line 74 then lands in the participant's `debt` field *)
MatchStepAliased ==
    /\ pc = "match"
    /\ LoopCondition
    /\ LET debt == Min(creditors[i + 1].amount, debtors[j + 1].amount)
           c == creditors[i + 1].amount - debt
           d == debtors[j + 1].amount - debt
       IN /\ debts' = Append(debts, [from |-> debtors[j + 1].name,
                                     to |-> creditors[i + 1].name,
                                     amount |-> debt])
          /\ creditors' = [creditors EXCEPT ![i + 1].amount = c]
          /\ debtors' = [debtors EXCEPT ![j + 1].amount = d]
          /\ people' = [k \in 1..Len(people) |->
                          IF people[k].name = debtors[j + 1].name
                          THEN [people[k] EXCEPT !.debt = @ - debt]
                          ELSE people[k]]
          /\ i' = IF c = 0 THEN i + 1 ELSE i
          /\ j' = IF d = 0 THEN j + 1 ELSE j
    /\ pc' = "match"
    /\ UNCHANGED <<openPerson, totalSpent, totalPaid, debtMap, result>>

(* one iteration of the while loop, lines 71-76 *)
MatchStep ==
    /\ pc = "match"
    /\ LoopCondition
    /\ LET debt == Min(creditors[i + 1].amount, debtors[j + 1].amount)
           c == creditors[i + 1].amount - debt
           d == debtors[j + 1].amount - debt
       IN /\ debts' = Append(debts, [from |-> debtors[j + 1].name,
                                     to |-> creditors[i + 1].name,
                                     amount |-> debt])
          /\ creditors' = [creditors EXCEPT ![i + 1].amount = c]
          /\ debtors' = [debtors EXCEPT ![j + 1].amount = d]
          /\ i' = IF c = 0 THEN i + 1 ELSE i
          /\ j' = IF d = 0 THEN j + 1 ELSE j
    /\ pc' = "match"
    /\ UNCHANGED <<people, openPerson, totalSpent, totalPaid, debtMap, result>>

(* line 79, reached when the loop condition of line 70 is false *)
Return ==
    /\ pc = "match"
    /\ ~LoopCondition
    /\ result' = [debts |-> debts]
    /\ pc' = "idle"
    /\ UNCHANGED <<people, openPerson, totalSpent, totalPaid, debtMap,
                   creditors, debtors, debts, i, j>>

calculateDebts ==
    Aggregate \/ ValidateError \/ ValidateOk \/ Partition \/ MatchStep \/ Return

---------------------------------------------------------------------------
(* PersonCard, lines 130-141: the label rendered next to the name *)

PersonCard(person) ==
    LET debt == SumItems(person.items) - SumPayments(person.payments)
    IN IF debt < 0 THEN "Owes" ELSE "Is owed"

---------------------------------------------------------------------------
(* Event handlers, lines 12-43, 91, 102 *)

addPerson ==
    /\ pc = "idle"
    /\ Len(people) < MaxPeople
    /\ \E name \in Names :
          people' = Append(people, [name |-> name, items |-> <<>>,
                                    payments |-> <<>>, debt |-> 0])
    /\ UNCHANGED openPerson
    /\ Invoke

(* PersonCard's onClick: setOpenPerson(index); 1-based here, NULL = 0 *)
setOpenPerson ==
    /\ pc = "idle"
    /\ \E index \in 1..Len(people) :
          /\ index # openPerson
          /\ openPerson' = index
    /\ UNCHANGED people
    /\ Invoke

(* the dialog's onClose: setOpenPerson(null) *)
closePerson ==
    /\ pc = "idle"
    /\ openPerson # NULL
    /\ openPerson' = NULL
    /\ UNCHANGED people
    /\ Invoke

(* onAddItem = (item, value) => addItem(openPerson, item, value) *)
addItem ==
    /\ pc = "idle"
    /\ openPerson # NULL
    /\ Len(people[openPerson].items) < MaxItems
    /\ \E value \in ItemValues :
          people' = [people EXCEPT ![openPerson].items =
                        Append(@, [name |-> "item", value |-> value])]
    /\ UNCHANGED openPerson
    /\ Invoke

addPayment ==
    /\ pc = "idle"
    /\ openPerson # NULL
    /\ Len(people[openPerson].payments) < MaxPayments
    /\ \E amount \in PaymentValues :
          people' = [people EXCEPT ![openPerson].payments = Append(@, amount)]
    /\ UNCHANGED openPerson
    /\ Invoke

removeItem ==
    /\ pc = "idle"
    /\ openPerson # NULL
    /\ \E itemIndex \in 0..(Len(people[openPerson].items) - 1) :
          people' = [people EXCEPT ![openPerson].items = Splice(@, itemIndex)]
    /\ UNCHANGED openPerson
    /\ Invoke

removePayment ==
    /\ pc = "idle"
    /\ openPerson # NULL
    /\ \E paymentIndex \in 0..(Len(people[openPerson].payments) - 1) :
          people' = [people EXCEPT ![openPerson].payments = Splice(@, paymentIndex)]
    /\ UNCHANGED openPerson
    /\ Invoke

(* people.filter((_, i) => i !== index); setOpenPerson(null) *)
deletePerson ==
    /\ pc = "idle"
    /\ openPerson # NULL
    /\ people' = Splice(people, openPerson - 1)
    /\ openPerson' = NULL
    /\ Invoke

---------------------------------------------------------------------------

Init ==
    /\ people = <<>>
    /\ openPerson = NULL
    /\ pc = "aggregate"
    /\ totalSpent = 0
    /\ totalPaid = 0
    /\ debtMap = <<>>
    /\ creditors = <<>>
    /\ debtors = <<>>
    /\ debts = <<>>
    /\ i = 0
    /\ j = 0
    /\ result = NoResult

Next ==
    \/ Aggregate
    \/ ValidateError
    \/ ValidateOk
    \/ Partition
    \/ MatchStep
    \/ Return
    \/ addPerson
    \/ setOpenPerson
    \/ closePerson
    \/ addItem
    \/ addPayment
    \/ removeItem
    \/ removePayment
    \/ deletePerson

Spec == Init /\ [][Next]_vars

(* One call of calculateDebts on each ledger of names and payments the
   handlers can build: the render of line 114 taken alone.  The call is
   synchronous, so once begun it is run to its return: weak fairness on its
   steps.  Items are left out of these ledgers: their value is 0
   (ItemValues) and no balance depends on them. *)
ItemLists == {<<>>}

PaymentLists ==
    UNION {[1..n -> PaymentValues] : n \in 0..MaxPayments}

Ledgers ==
    UNION {[1..n -> [name : Names, items : ItemLists,
                     payments : PaymentLists, debt : {0}]] : n \in 0..MaxPeople}

RenderInit ==
    /\ people \in Ledgers
    /\ openPerson = NULL
    /\ pc = "aggregate"
    /\ totalSpent = 0
    /\ totalPaid = 0
    /\ debtMap = <<>>
    /\ creditors = <<>>
    /\ debtors = <<>>
    /\ debts = <<>>
    /\ i = 0
    /\ j = 0
    /\ result = NoResult

RenderNext ==
    \/ Aggregate
    \/ ValidateError
    \/ ValidateOk
    \/ Partition
    \/ MatchStep
    \/ Return

RenderSpec == RenderInit /\ [][RenderNext]_vars /\ WF_vars(RenderNext)

---------------------------------------------------------------------------
(* The ledger as the properties read it *)

Balance(person) == SumPayments(person.payments) - SumItems(person.items)

RECURSIVE LedgerSpent(_)
LedgerSpent(ps) ==
    IF ps = <<>> THEN 0 ELSE SumItems(Head(ps).items) + LedgerSpent(Tail(ps))

RECURSIVE LedgerPaid(_)
LedgerPaid(ps) ==
    IF ps = <<>> THEN 0 ELSE SumPayments(Head(ps).payments) + LedgerPaid(Tail(ps))

DistinctNames ==
    \A k, l \in 1..Len(people) : k # l => people[k].name # people[l].name

Returned == pc = "idle" /\ "debts" \in DOMAIN result

Failed == pc = "idle" /\ "error" \in DOMAIN result

RECURSIVE SumTo(_, _)
SumTo(ts, name) ==
    IF ts = <<>> THEN 0
    ELSE (IF Head(ts).to = name THEN Head(ts).amount ELSE 0) + SumTo(Tail(ts), name)

RECURSIVE SumFrom(_, _)
SumFrom(ts, name) ==
    IF ts = <<>> THEN 0
    ELSE (IF Head(ts).from = name THEN Head(ts).amount ELSE 0) + SumFrom(Tail(ts), name)

RECURSIVE SumAmounts(_)
SumAmounts(rs) ==
    IF rs = <<>> THEN 0 ELSE Head(rs).amount + SumAmounts(Tail(rs))

Redistributes(ts) ==
    \A k \in 1..Len(people) :
        /\ Balance(people[k]) > 0 => SumTo(ts, people[k].name) = Balance(people[k])
        /\ Balance(people[k]) < 0 => SumFrom(ts, people[k].name) = 0 - Balance(people[k])

(* the balance debtMap holds for a name *)
AmountOf(name) ==
    LET k == CHOOSE k \in 1..Len(debtMap) : debtMap[k].name = name
    IN debtMap[k].amount

(* a sequence without the repetitions of its neighbours *)
RECURSIVE Runs(_)
Runs(s) ==
    IF Len(s) <= 1 THEN s
    ELSE IF s[1] = s[2] THEN Runs(Tail(s))
         ELSE << s[1] >> \o Runs(Tail(s))

IsPrefix(s, t) == Len(s) <= Len(t) /\ \A k \in 1..Len(s) : s[k] = t[k]

---------------------------------------------------------------------------
(* C1 as stated: on every ledger with pairwise distinct names that the
   validator accepts, each creditor receives exactly its balance and each
   debtor pays exactly its deficit. *)
C1_ConservationAccepted ==
    (Returned /\ DistinctNames) => Redistributes(result.debts)

(* C1 amended: on every ledger with pairwise distinct names whose totals
   are exactly equal, each creditor receives exactly its balance and each
   debtor pays exactly its deficit. *)
C1_ConservationBalanced ==
    (Returned /\ DistinctNames /\ LedgerSpent(people) = LedgerPaid(people))
        => Redistributes(result.debts)

C1_Witness ==
    /\ Returned
    /\ DistinctNames
    /\ LedgerSpent(people) = LedgerPaid(people)
    /\ Len(people) = 3
    /\ Len(result.debts) = 2
    /\ result.debts[1].amount # result.debts[2].amount

(* C2: the result is the error "Totals do not match" exactly when the
   ledger's totals differ by more than the tolerance, and otherwise a
   transfer list; it carries exactly one of the two fields. *)
C2_ErrorIffMismatch ==
    pc = "idle" =>
        /\ Abs(LedgerSpent(people) - LedgerPaid(people)) > 1
              => result = [error |-> "Totals do not match"]
        /\ Abs(LedgerSpent(people) - LedgerPaid(people)) <= 1
              => /\ DOMAIN result = {"debts"}
                 /\ result.debts = debts
        /\ DOMAIN result \in {{"error"}, {"debts"}}

C2_Witness ==
    /\ Returned
    /\ Len(people) >= 2
    /\ Abs(LedgerSpent(people) - LedgerPaid(people)) = 1

(* C3: every transfer pushed has an amount greater than 0, and at every
   iteration of the loop both current records hold an amount greater than 0. *)
C3_Positivity ==
    /\ \A k \in 1..Len(debts) : debts[k].amount > 0
    /\ (pc = "match" /\ LoopCondition)
          => creditors[i + 1].amount > 0 /\ debtors[j + 1].amount > 0
    /\ Returned => \A k \in 1..Len(result.debts) : result.debts[k].amount > 0

C3_Witness ==
    /\ pc = "match"
    /\ LoopCondition
    /\ Len(debts) = 1
    /\ i = 0
    /\ j = 1
    /\ creditors[1].amount = 1

(* C4: a returned list built from non-empty creditor and debtor lists has
   at most (number of creditors) + (number of debtors) - 1 transfers. *)
C4_Boundedness ==
    (Returned /\ Len(creditors) > 0 /\ Len(debtors) > 0)
        => Len(result.debts) <= Len(creditors) + Len(debtors) - 1

C4_Witness ==
    /\ Returned
    /\ Len(creditors) = 2
    /\ Len(debtors) = 1
    /\ Len(result.debts) = 2

(* C5: no step of calculateDebts changes the ledger, on the error path and
   on the transfer path alike. *)
C5_LedgerUnchanged ==
    [][pc # "idle" => people' = people]_vars

C5_Witness ==
    /\ pc = "match"
    /\ i + j >= 2
    /\ Len(people) >= 2
    /\ \E k \in 1..Len(creditors) : creditors[k].amount = 0

(* C6: every iteration of the matching loop advances i or j, neither
   pointer passes the end of its list, the loop leaves as soon as one
   pointer reaches the end, and a started matching loop returns. *)
C6_Termination ==
    /\ [][(pc = "match" /\ pc' = "match")
             => /\ LoopCondition
                /\ i' + j' > i + j
                /\ i' <= Len(creditors) /\ j' <= Len(debtors)]_vars
    /\ [][(pc = "match" /\ ~LoopCondition) => pc' = "idle"]_vars
    /\ ((pc = "match") ~> (pc = "idle"))

C6_Witness ==
    /\ pc = "match"
    /\ LoopCondition
    /\ i + j >= 1
    /\ Len(debts) = i + j

(* C7 as stated: on every ledger the validator accepts, the loop exits
   with both lists exhausted and no residual amount. *)
C7_JointExhaustionAccepted ==
    Returned =>
        /\ i = Len(creditors)
        /\ j = Len(debtors)
        /\ \A k \in 1..Len(creditors) : creditors[k].amount = 0
        /\ \A k \in 1..Len(debtors) : debtors[k].amount = 0

(* C7 amended: when the balances handed to the matcher sum to exactly
   zero, the loop exits with both lists exhausted and no residual amount. *)
C7_JointExhaustionBalanced ==
    (Returned /\ SumAmounts(debtMap) = 0) =>
        /\ i = Len(creditors)
        /\ j = Len(debtors)
        /\ \A k \in 1..Len(creditors) : creditors[k].amount = 0
        /\ \A k \in 1..Len(debtors) : debtors[k].amount = 0

C7_Witness ==
    /\ Returned
    /\ SumAmounts(debtMap) = 0
    /\ Len(creditors) = 1
    /\ Len(debtors) = 2
    /\ i = 1
    /\ j = 2

(* C8: every transfer goes from a participant with negative balance to one
   with positive balance; the creditors and the debtors are taken in
   non-increasing order of |balance|, and the transfers of one creditor
   and of one debtor are contiguous: the `to` names, neighbours' repetitions
   removed, are a prefix of the creditor list, the `from` names of the
   debtor list. *)
C8_LargestFirst ==
    Returned =>
        /\ \A k \in 1..Len(result.debts) :
              /\ \E p \in 1..Len(people) :
                    people[p].name = result.debts[k].from /\ Balance(people[p]) < 0
              /\ \E p \in 1..Len(people) :
                    people[p].name = result.debts[k].to /\ Balance(people[p]) > 0
        /\ \A k, l \in 1..Len(creditors) :
              k < l => AmountOf(creditors[k].name) >= AmountOf(creditors[l].name)
        /\ \A k, l \in 1..Len(debtors) :
              k < l => AmountOf(debtors[k].name) <= AmountOf(debtors[l].name)
        /\ IsPrefix(Runs([k \in 1..Len(result.debts) |-> result.debts[k].to]),
                    [k \in 1..Len(creditors) |-> creditors[k].name])
        /\ IsPrefix(Runs([k \in 1..Len(result.debts) |-> result.debts[k].from]),
                    [k \in 1..Len(debtors) |-> debtors[k].name])

C8_Witness ==
    /\ Returned
    /\ Len(result.debts) = 2
    /\ Len(creditors) = 2
    /\ debtMap[1].amount > 0
    /\ debtMap[2].amount > debtMap[1].amount
    /\ result.debts[1].to = debtMap[2].name
    /\ result.debts[2].to = debtMap[1].name

(* C9: the balances in debtMap sum to totalPaid - totalSpent, so the
   matcher only ever receives balances whose sum is within the tolerance
   of zero. *)
C9_SameBalances ==
    /\ pc \in {"validate", "partition", "match", "idle"}
          => SumAmounts(debtMap) = totalPaid - totalSpent
    /\ pc \in {"partition", "match"} => Abs(SumAmounts(debtMap)) <= 1

(* C10: the label PersonCard renders agrees with the participant's side in
   the settlement: "Owes" for a negative balance, "Is owed" for a positive
   one. *)
C10_LabelAgrees ==
    \A k \in 1..Len(people) :
        /\ Balance(people[k]) < 0 => PersonCard(people[k]) = "Owes"
        /\ Balance(people[k]) > 0 => PersonCard(people[k]) = "Is owed"

====
